---- MODULE Spec2Model ----
(***************************************************************************)
(* A model of fetch-gjs (src/index.mjs): makeFetch(session) returns a      *)
(* fetch-like function that turns (url, options) into a Soup.Message,      *)
(* hands it to session.send_and_read_async and settles a promise from the  *)
(* completion callback.                                                    *)
(*                                                                         *)
(* JavaScript strings are sequences of Unicode scalar values (code         *)
(* points), byte arrays are sequences of 0..255.  The Soup session is the  *)
(* environment: it completes the exchanges it was handed, in any order,    *)
(* each with a status line, headers and bytes, or with an error.           *)
(***************************************************************************)
EXTENDS Integers, Sequences, FiniteSets, TLC

VARIABLES makes, calls, sent

vars == <<makes, calls, sent>>

(***************************************************************************)
(* Bounds of the model.                                                    *)
(***************************************************************************)
MaxMakes == 2
MaxCalls == 2
MaxInputCalls == 1
MaxHeaders == 2
MaxBodyLen == 2

(***************************************************************************)
(* JavaScript values: a type tag and a payload (always a sequence of       *)
(* naturals, so that any two values can be compared).                      *)
(***************************************************************************)
Val(t, v) == [t |-> t, v |-> v]
Undefined == Val("undefined", <<>>)
Null == Val("null", <<>>)
Bool(b) == Val("boolean", IF b THEN <<1>> ELSE <<0>>)
Num(n) == Val("number", <<n>>)
Str(s) == Val("string", s)
Uint8Array(b) == Val("Uint8Array", b)
Obj(i) == Val("object", <<i>>)
Session(i) == Val("Soup.Session", <<i>>)

\* ToBoolean, as `if (x)` and `!x` apply it.
Truthy(x) ==
  CASE x.t \in {"undefined", "null"} -> FALSE
    [] x.t = "boolean" -> x.v = <<1>>
    [] x.t = "number" -> x.v # <<0>>
    [] x.t = "string" -> Len(x.v) > 0
    [] OTHER -> TRUE

\* The typeof operator.
TypeOf(x) ==
  CASE x.t \in {"undefined", "boolean", "number", "string"} -> x.t
    [] OTHER -> "object"

\* Names of code point sequences the code spells as literals.
sGET == <<71, 69, 84>>
sTextPlain == <<116, 101, 120, 116, 47, 112, 108, 97, 105, 110>>

\* String.prototype.toUpperCase / the lower-casing of Headers.append, on the
\* ASCII letters (the other code points of the model have no case).
UpperChar(c) == IF c >= 97 /\ c <= 122 THEN c - 32 ELSE c
LowerChar(c) == IF c >= 65 /\ c <= 90 THEN c + 32 ELSE c
ToUpperCase(s) == [i \in 1..Len(s) |-> UpperChar(s[i])]
ToLowerCase(s) == [i \in 1..Len(s) |-> LowerChar(s[i])]

(***************************************************************************)
(* Errors: the message the code builds (its fixed part, and the typeof it  *)
(* interpolates) and the cause it attaches.                                *)
(***************************************************************************)
Error(msg, typeof, cause) == [msg |-> msg, typeof |-> typeof, cause |-> cause]
NoError == Error("", "", Undefined)
SessionRequired == Error("Session is required", "", Undefined)
InvalidURL(url) == Error("Invalid URL", "string", Undefined)
UnsupportedBody(body) == Error("Unsupported body type", TypeOf(body), body)
ClientError(k) == Error("Soup transport error", "", Num(k))

(***************************************************************************)
(* URL.canParse / URL.parse(url).toString(): the URL strings of the model  *)
(* and the serialisation the URL parser gives each (scheme and host        *)
(* lower-cased, an empty path made "/"); the others do not parse as an     *)
(* absolute URL.                                                           *)
(***************************************************************************)
URLHref ==
  [u \in {"https://x/y", "HTTPS://A"} |->
     IF u = "HTTPS://A" THEN "https://a/" ELSE u]
\* Variant: no URL is refused.
URLcanParseAny(url) == TRUE
URLcanParse(url) == url \in DOMAIN URLHref
URLparse(url) == IF url \in DOMAIN URLHref THEN URLHref[url] ELSE "null"

(***************************************************************************)
(* TextDecoder.decode (UTF-8, replacement on error, a leading BOM          *)
(* stripped) and TextEncoder.encode.                                       *)
(***************************************************************************)
RECURSIVE Utf8Dec(_, _, _, _, _, _, _)
Utf8Dec(b, i, cp, needed, seen, lo, hi) ==
  IF i > Len(b) THEN (IF needed # 0 THEN <<65533>> ELSE <<>>)
  ELSE LET x == b[i] IN
    IF needed = 0 THEN
      IF x <= 127 THEN <<x>> \o Utf8Dec(b, i + 1, 0, 0, 0, 128, 191)
      ELSE IF x >= 194 /\ x <= 223
        THEN Utf8Dec(b, i + 1, x - 192, 1, 0, 128, 191)
      ELSE IF x >= 224 /\ x <= 239
        THEN Utf8Dec(b, i + 1, x - 224, 2, 0,
                     IF x = 224 THEN 160 ELSE 128, IF x = 237 THEN 159 ELSE 191)
      ELSE IF x >= 240 /\ x <= 244
        THEN Utf8Dec(b, i + 1, x - 240, 3, 0,
                     IF x = 240 THEN 144 ELSE 128, IF x = 244 THEN 143 ELSE 191)
      ELSE <<65533>> \o Utf8Dec(b, i + 1, 0, 0, 0, 128, 191)
    ELSE IF x < lo \/ x > hi
      THEN <<65533>> \o Utf8Dec(b, i, 0, 0, 0, 128, 191)
    ELSE IF seen + 1 = needed
      THEN <<cp * 64 + (x - 128)>> \o Utf8Dec(b, i + 1, 0, 0, 0, 128, 191)
    ELSE Utf8Dec(b, i + 1, cp * 64 + (x - 128), needed, seen + 1, 128, 191)

TextDecoderDecode(b) ==
  LET s == Utf8Dec(b, 1, 0, 0, 0, 128, 191)
  IN IF Len(s) > 0 /\ s[1] = 65279 THEN Tail(s) ELSE s

EncodeCodePoint(c) ==
  IF c < 128 THEN <<c>>
  ELSE IF c < 2048 THEN <<192 + (c \div 64), 128 + (c % 64)>>
  ELSE IF c < 65536
    THEN <<224 + (c \div 4096), 128 + ((c \div 64) % 64), 128 + (c % 64)>>
  ELSE <<240 + (c \div 262144), 128 + ((c \div 4096) % 64),
         128 + ((c \div 64) % 64), 128 + (c % 64)>>

RECURSIVE TextEncoderEncode(_)
TextEncoderEncode(s) ==
  IF s = <<>> THEN <<>>
  ELSE EncodeCodePoint(Head(s)) \o TextEncoderEncode(Tail(s))

(***************************************************************************)
(* Uint8Array.prototype.toString: the elements in decimal, joined by ",".  *)
(***************************************************************************)
RECURSIVE Decimal(_)
Decimal(n) ==
  IF n < 10 THEN <<48 + n>> ELSE Append(Decimal(n \div 10), 48 + (n % 10))

RECURSIVE BytesToString(_)
BytesToString(b) ==
  IF b = <<>> THEN <<>>
  ELSE IF Len(b) = 1 THEN Decimal(b[1])
  ELSE Decimal(b[1]) \o <<44>> \o BytesToString(Tail(b))

(***************************************************************************)
(* Object.entries of a plain object: the object is the sequence of its     *)
(* <<key, value>> properties in insertion order (keys distinct); the       *)
(* entries are the array-index keys in ascending numeric order, then the   *)
(* other keys in insertion order.  (Keys of the model are shorter than 10  *)
(* characters, so a canonical decimal key is below 2^32 - 1.)              *)
(***************************************************************************)
IsDigits(k) == \A i \in 1..Len(k) : k[i] >= 48 /\ k[i] <= 57
IsArrayIndex(k) ==
  /\ Len(k) > 0
  /\ Len(k) < 10
  /\ IsDigits(k)
  /\ (Len(k) = 1 \/ k[1] # 48)

RECURSIVE NumericValue(_)
NumericValue(k) ==
  IF k = <<>> THEN 0
  ELSE NumericValue(SubSeq(k, 1, Len(k) - 1)) * 10 + (k[Len(k)] - 48)

IsIndexEntry(e) == IsArrayIndex(e[1])
IsNamedEntry(e) == ~IsArrayIndex(e[1])

RECURSIVE SortByIndex(_)
SortByIndex(es) ==
  IF es = <<>> THEN <<>>
  ELSE LET m == CHOOSE i \in 1..Len(es) :
                  \A j \in 1..Len(es) :
                    NumericValue(es[i][1]) <= NumericValue(es[j][1])
       IN <<es[m]>> \o SortByIndex(SubSeq(es, 1, m - 1) \o SubSeq(es, m + 1, Len(es)))

ObjectEntries(obj) ==
  SortByIndex(SelectSeq(obj, IsIndexEntry)) \o SelectSeq(obj, IsNamedEntry)

(***************************************************************************)
(* options: method (undefined or a string), headers (absent, or a plain    *)
(* object of string properties) and body (any value).                      *)
(***************************************************************************)
Options(method, hasHeaders, headers, body) ==
  [method |-> method, hasHeaders |-> hasHeaders, headers |-> headers, body |-> body]
DefaultOptions == Options(Undefined, FALSE, <<>>, Undefined)

\* const method = options.method ? options.method.toUpperCase() : "GET"
MethodOf(options) ==
  IF Truthy(options.method) THEN ToUpperCase(options.method.v) ELSE sGET

\* Whether a body was supplied, as the code tests it.
BodySupplied(options) == Truthy(options.body)

\* let body = null; if (options.body) { string | Uint8Array | reject }
\* rejected: the executor rejected and returned; isNull: body stayed null.
CoerceBody(options) ==
  IF ~BodySupplied(options)
    THEN [rejected |-> FALSE, isNull |-> TRUE, text |-> <<>>]
  ELSE IF TypeOf(options.body) = "string"
    THEN [rejected |-> FALSE, isNull |-> FALSE, text |-> options.body.v]
  ELSE IF options.body.t = "Uint8Array"
    THEN [rejected |-> FALSE, isNull |-> FALSE, text |-> TextDecoderDecode(options.body.v)]
  ELSE [rejected |-> TRUE, isNull |-> TRUE, text |-> <<>>]

\* if (body): null and the empty string are both skipped.
BodyIsSet(body) == ~body.isNull /\ Len(body.text) > 0

\* for (const [key, value] of Object.entries(options.headers || {}))
\*   message.request_headers.append(key, value)
HeaderEntries(options) ==
  IF options.hasHeaders THEN ObjectEntries(options.headers) ELSE <<>>

\* Variant: each entry replaces what the collection held.
ReplaceAll(headers, entries) ==
  IF entries = <<>> THEN headers ELSE <<entries[Len(entries)]>>

RECURSIVE AppendAll(_, _)
AppendAll(headers, entries) ==
  IF entries = <<>> THEN headers
  ELSE AppendAll(Append(headers, Head(entries)), Tail(entries))

(***************************************************************************)
(* The Soup.Message: what Soup.Message.new, request_headers.append and     *)
(* set_request_body_from_bytes were called with, and the response fields   *)
(* the session fills in when the exchange completes.                       *)
(***************************************************************************)
NewMessage(method, uri) ==
  [method |-> method, uri |-> uri, request_headers |-> <<>>,
   has_body |-> FALSE, content_type |-> <<>>, body |-> <<>>,
   status_code |-> 0, reason_phrase |-> "", response_headers |-> <<>>]

SetRequestBody(message, body) ==
  IF BodyIsSet(body)
    THEN [message EXCEPT !.has_body = TRUE, !.content_type = sTextPlain,
                         !.body = TextEncoderEncode(body.text)]
    ELSE message

BuildMessage(urlString, options) ==
  SetRequestBody(
    [NewMessage(MethodOf(options), urlString) EXCEPT
       !.request_headers = AppendAll(<<>>, HeaderEntries(options))],
    CoerceBody(options))

(***************************************************************************)
(* The Response-like object the completion callback builds.                *)
(***************************************************************************)
\* Variant: the upper end of the range included.
IsOkUpTo300(status_code) == status_code >= 200 /\ status_code <= 300
IsOk(status_code) == status_code >= 200 /\ status_code < 300

\* const out = new Headers(); response_headers.foreach((n, v) => out.append(n, v))
RECURSIVE ResponseHeaders(_)
ResponseHeaders(hs) ==
  IF hs = <<>> THEN <<>>
  ELSE <<[name |-> ToLowerCase(Head(hs).name), value |-> Head(hs).value]>>
         \o ResponseHeaders(Tail(hs))

\* bytes?.get_data()?.toString() ?? ""
ResponseBody(bytes) == IF bytes.isNull THEN <<>> ELSE BytesToString(bytes.data)

NoResponse ==
  [ok |-> FALSE, status |-> 0, statusText |-> "", headers |-> <<>>,
   bodyText |-> <<>>, url |-> "", redirected |-> FALSE, type |-> "",
   bodyUsed |-> FALSE]

BuildResponse(message, urlString, bytes) ==
  [ok |-> IsOk(message.status_code), status |-> message.status_code,
   statusText |-> message.reason_phrase,
   headers |-> ResponseHeaders(message.response_headers),
   bodyText |-> ResponseBody(bytes), url |-> urlString,
   redirected |-> FALSE, type |-> "default", bodyUsed |-> TRUE]

(***************************************************************************)
(* State.                                                                  *)
(*   makes: the calls of makeFetch so far, each with its argument and      *)
(*          whether it threw or returned a function closed over it.        *)
(*   calls: the calls of the returned functions so far.                    *)
(*   sent:  the messages handed to send_and_read_async so far, each with   *)
(*          what its completion callback closes over (the call whose       *)
(*          resolve/reject it holds, urlString) and, once the session has  *)
(*          completed it, what the session delivered.                      *)
(***************************************************************************)
NoBytes == [isNull |-> TRUE, data |-> <<>>]
SomeBytes(b) == [isNull |-> FALSE, data |-> b]

MakeRecord(session, thrown, error) ==
  [arg |-> session, thrown |-> thrown, returned |-> ~thrown, error |-> error]

CallRecord(f, url, options, outcome, promise, error) ==
  [fetcher |-> f, url |-> url, options |-> options, outcome |-> outcome,
   promise |-> promise, error |-> error, views |-> 0, completions |-> 0,
   response |-> NoResponse]

SentRecord(session, message, call, urlString) ==
  [session |-> session, message |-> message, call |-> call,
   urlString |-> urlString, done |-> FALSE, failed |-> FALSE,
   error |-> NoError, bytes |-> NoBytes]

Init ==
  /\ makes = <<>>
  /\ calls = <<>>
  /\ sent = <<>>

(***************************************************************************)
(* makeFetch(session)                                                      *)
(***************************************************************************)
SessionMissing(session) == ~Truthy(session)

MakeFetchCall(session) ==
  /\ makes' = Append(makes,
       IF SessionMissing(session)
         THEN MakeRecord(session, TRUE, SessionRequired)
         ELSE MakeRecord(session, FALSE, NoError))
  /\ UNCHANGED <<calls, sent>>

(***************************************************************************)
(* The function makeFetch returned, called as f(url, options): the URL     *)
(* check, then the promise executor up to send_and_read_async.             *)
(***************************************************************************)
\* Variant: one session kept for all functions, the last one given.
LatestSession(f) == makes[Len(makes)].arg

\* The session the returned function closes over.
BoundSession(f) == makes[f].arg

\* Variant: the executor goes on after rejecting.
ExecutorAlwaysSends(options) == TRUE

\* The executor returns early exactly when it rejected the body.
ExecutorSends(options) == ~CoerceBody(options).rejected

FetchCall(f, url, options) ==
  /\ f \in DOMAIN makes
  /\ makes[f].returned
  /\ IF ~URLcanParse(url)
       THEN /\ calls' = Append(calls,
                 CallRecord(f, url, options, "thrown", FALSE, InvalidURL(url)))
            /\ UNCHANGED sent
       ELSE IF ~ExecutorSends(options)
         THEN /\ calls' = Append(calls,
                   CallRecord(f, url, options, "rejected", TRUE,
                              UnsupportedBody(options.body)))
              /\ UNCHANGED sent
         ELSE /\ calls' = Append(calls,
                   CallRecord(f, url, options, "pending", TRUE, NoError))
              /\ sent' = Append(sent,
                   SentRecord(BoundSession(f),
                              BuildMessage(URLparse(url), options),
                              Len(calls) + 1, URLparse(url)))
  /\ UNCHANGED makes

(***************************************************************************)
(* The session completes exchange i and invokes its completion callback    *)
(* (session, res) => { try { ... resolve(response) } catch (e) { reject(e) *)
(* } }.  result is what send_and_read_finish gives: an error it raises, or *)
(* the bytes, with the status line and headers set on the message.         *)
(***************************************************************************)
ClientResult(failed, error, status_code, reason_phrase, response_headers, bytes) ==
  [failed |-> failed, error |-> error, status_code |-> status_code,
   reason_phrase |-> reason_phrase, response_headers |-> response_headers,
   bytes |-> bytes]
Failure(e) == ClientResult(TRUE, e, 0, "", <<>>, NoBytes)
Success(status_code, reason_phrase, response_headers, bytes) ==
  ClientResult(FALSE, NoError, status_code, reason_phrase, response_headers, bytes)

\* The message as the session leaves it when the exchange completes.
Completed(message, result) ==
  IF result.failed THEN message
  ELSE [message EXCEPT !.status_code = result.status_code,
                       !.reason_phrase = result.reason_phrase,
                       !.response_headers = result.response_headers]

\* Variant: one resolve/reject pair kept for all calls, the last one made.
LatestCall(i) == Len(calls)

\* What the callback of exchange i closes over.
ClosureCall(i) == sent[i].call
ClosureMessage(i) == sent[i].message
ClosureUrl(i) == sent[i].urlString

\* A promise settles once: resolve and reject act on a pending promise only.
Resolve(cs, c, response) ==
  IF cs[c].outcome = "pending"
    THEN [cs EXCEPT ![c].outcome = "resolved", ![c].response = response]
    ELSE cs
Reject(cs, c, e) ==
  IF cs[c].outcome = "pending"
    THEN [cs EXCEPT ![c].outcome = "rejected", ![c].error = e]
    ELSE cs

\* Variants: a failure of send_and_read_finish not noticed; the error wrapped.
CallbackNeverThrows(session, result) == FALSE
CallbackErrorWrapped(session, result) ==
  Error("Request failed", "", IF SessionMissing(session) THEN Undefined ELSE result.error.cause)

\* The error the try block throws, if any: the missing session, or what
\* send_and_read_finish raised.
CallbackThrows(session, result) == SessionMissing(session) \/ result.failed
CallbackError(session, result) ==
  IF SessionMissing(session) THEN SessionRequired ELSE result.error

Callback(i, result) ==
  /\ i \in DOMAIN sent
  /\ ~sent[i].done
  /\ LET c == ClosureCall(i)
         message == Completed(ClosureMessage(i), result)
         entered == [calls EXCEPT ![c].completions = @ + 1]
     IN /\ calls' =
             IF CallbackThrows(sent[i].session, result)
               THEN Reject(entered, c, CallbackError(sent[i].session, result))
               ELSE Resolve([entered EXCEPT ![c].views = @ + 1], c,
                            BuildResponse(message, ClosureUrl(i), result.bytes))
        /\ sent' = [sent EXCEPT ![i].done = TRUE, ![i].message = message,
                                ![i].failed = result.failed,
                                ![i].error = result.error,
                                ![i].bytes = result.bytes]
  /\ UNCHANGED makes

(***************************************************************************)
(* Inputs.                                                                 *)
(***************************************************************************)
sPost == <<112, 111, 115, 116>>
sX == <<88>>
sAccept == <<65, 99, 99, 101, 112, 116>>
sTwo == <<50>>
sTen == <<49, 48>>
sContentType == <<67, 111, 110, 116, 101, 110, 116, 45, 84, 121, 112, 101>>
sJson == <<97, 112, 112, 108, 105, 99, 97, 116, 105, 111, 110, 47, 106, 115, 111, 110>>
sZ == <<122>>

\* All sequences over S of length at most n.
RECURSIVE SeqsUpTo(_, _)
SeqsUpTo(S, n) ==
  IF n = 0 THEN {<<>>}
  ELSE LET shorter == SeqsUpTo(S, n - 1)
       IN shorter \cup {Append(q, x) : q \in shorter, x \in S}

MakeArgs == {Undefined, Null, Session(1), Session(2)}

ValidUrl == "https://x/y"

PostOptions == Options(Str(sPost), TRUE, <<<<sX, <<49>>>>>>, Str(sZ))
ObjectBodyOptions == Options(Undefined, FALSE, <<>>, Obj(1))

\* The calls of the lifecycle specification.
LifecycleInputs ==
  {<<ValidUrl, DefaultOptions>>, <<"not a url", DefaultOptions>>,
   <<"HTTPS://A", PostOptions>>, <<ValidUrl, ObjectBodyOptions>>}

Ok200 == Success(200, "OK", <<[name |-> sContentType, value |-> sJson]>>, SomeBytes(sZ))
NotFound404 == Success(404, "Not Found", <<>>, NoBytes)
ClientResults == {Ok200, NotFound404, Failure(ClientError(1))}

\* Status codes around the 2xx range.
StatusCodes == {199, 200, 204, 299, 300, 404}
StatusResults ==
  {Success(st, "", h, b) :
     st \in StatusCodes,
     h \in {<<>>, <<[name |-> sContentType, value |-> sJson]>>},
     b \in {NoBytes, SomeBytes(sZ)}}
    \cup {Failure(ClientError(1))}
StatusInputs ==
  {<<u, o>> : u \in {ValidUrl, "HTTPS://A"}, o \in {DefaultOptions, PostOptions}}

\* Bodies: the falsy values, a number, an object, strings and byte arrays.
BodyChars == {122, 233}
BodyBytes == {122, 195, 169, 255}
BomZ == <<239, 187, 191, 122>>
Bodies ==
  {Undefined, Null, Num(0), Num(5), Bool(FALSE), Bool(TRUE), Obj(1)}
    \cup {Str(q) : q \in SeqsUpTo(BodyChars, MaxBodyLen)}
    \cup {Uint8Array(q) : q \in SeqsUpTo(BodyBytes, MaxBodyLen) \cup {BomZ}}
BodyOptions == {Options(Str(sPost), FALSE, <<>>, b) : b \in Bodies}

\* Header objects: distinct keys in any insertion order.
HeaderKeys == {sX, sAccept, sTwo, sTen}
HeaderObjects ==
  {[i \in 1..Len(ks) |-> <<ks[i], <<118>> \o ks[i]>>] :
     ks \in {q \in SeqsUpTo(HeaderKeys, MaxHeaders) :
               \A i, j \in 1..Len(q) : i # j => q[i] # q[j]}}
HeaderOptions ==
  {Options(Undefined, TRUE, h, b) : h \in HeaderObjects, b \in {Undefined, Str(sZ)}}
    \cup {DefaultOptions}

(***************************************************************************)
(* Specifications.                                                         *)
(***************************************************************************)
MakeFetch == \E session \in MakeArgs : Len(makes) < MaxMakes /\ MakeFetchCall(session)

Fetch ==
  \E f \in DOMAIN makes, in \in LifecycleInputs :
    Len(calls) < MaxCalls /\ FetchCall(f, in[1], in[2])

Complete == \E i \in DOMAIN sent, result \in ClientResults : Callback(i, result)

Next == MakeFetch \/ Fetch \/ Complete

\* Any number of makeFetch calls, calls in flight together, completions in
\* any order.
Spec == Init /\ [][Next]_vars

\* One session, one function.
MakeOne == makes = <<>> /\ MakeFetchCall(Session(1))

FetchBody ==
  \E options \in BodyOptions :
    Len(calls) < MaxInputCalls /\ FetchCall(1, ValidUrl, options)

NextBody == MakeOne \/ FetchBody \/ Complete

\* The body coercion over every kind of body.
SpecBody == Init /\ [][NextBody]_vars

FetchHeaders ==
  \E options \in HeaderOptions :
    Len(calls) < MaxInputCalls /\ FetchCall(1, ValidUrl, options)

NextHeaders == MakeOne \/ FetchHeaders \/ Complete

\* The header preparation over every header object.
SpecHeaders == Init /\ [][NextHeaders]_vars

FetchStatus ==
  \E in \in StatusInputs :
    Len(calls) < MaxInputCalls /\ FetchCall(1, in[1], in[2])

CompleteStatus == \E i \in DOMAIN sent, result \in StatusResults : Callback(i, result)

NextStatus == MakeOne \/ FetchStatus \/ CompleteStatus

\* The response object over the status codes.
SpecStatus == Init /\ [][NextStatus]_vars

(***************************************************************************)
(* Properties.                                                             *)
(***************************************************************************)
Calls == DOMAIN calls
Exchanges == DOMAIN sent
\* The exchanges issued for call c.
SentOf(c) == {i \in Exchanges : sent[i].call = c}
Settled(c) == calls[c].outcome # "pending"
AbsoluteUrls == {"https://x/y", "HTTPS://A"}
IsStringBody(b) == b.t = "string"
IsBytesBody(b) == b.t = "Uint8Array"

\* C1 as stated: every call that handed a request to the session and has
\* ended produced exactly one response object, and no response object exists,
\* nor is the promise resolved, before the completion callback of the call's
\* exchange has run.
C1_OneViewPerCall ==
  \A c \in Calls :
    /\ (Settled(c) /\ SentOf(c) # {}) => calls[c].views = 1
    /\ calls[c].completions = 0 =>
         calls[c].views = 0 /\ calls[c].outcome # "resolved"

\* C1 amended: a call produces at most one response object: exactly one when
\* its exchange completed without error (and then the promise is resolved
\* with it), none when the call threw, was rejected for its body or its
\* exchange failed; and never before the completion callback has run.
C1_AtMostOneViewAfterCompletion ==
  \A c \in Calls :
    /\ calls[c].views <= 1
    /\ calls[c].completions <= 1
    /\ calls[c].views = 1 <=> calls[c].outcome = "resolved"
    /\ calls[c].views = 1 <=>
         \E i \in SentOf(c) : sent[i].done /\ ~sent[i].failed
    /\ calls[c].completions = 0 =>
         calls[c].views = 0 /\ calls[c].outcome # "resolved"
    /\ calls[c].outcome # "resolved" => calls[c].response = NoResponse

C1_Witness ==
  \E c, d \in Calls :
    /\ calls[c].outcome = "resolved" /\ calls[c].views = 1
    /\ calls[d].outcome = "rejected" /\ calls[d].completions = 1
    /\ calls[d].views = 0

\* C2: a call whose url does not parse as an absolute URL has thrown the
\* invalid-URL error, constructed no promise and handed nothing to
\* send_and_read_async; every message handed over belongs to a call whose
\* url parsed, and carries the parsed URL.
C2_InvalidUrlThrowsBeforeSend ==
  /\ \A c \in Calls :
       calls[c].url \notin AbsoluteUrls =>
         /\ calls[c].outcome = "thrown"
         /\ ~calls[c].promise
         /\ calls[c].error.msg = "Invalid URL"
         /\ SentOf(c) = {}
         /\ calls[c].completions = 0
  /\ \A i \in Exchanges :
       /\ calls[sent[i].call].url \in AbsoluteUrls
       /\ calls[sent[i].call].promise
       /\ sent[i].message.uri = URLHref[calls[sent[i].call].url]

C2_Witness ==
  \E c, d \in Calls :
    /\ calls[c].url = "not a url" /\ calls[c].outcome = "thrown"
    /\ calls[d].url \in AbsoluteUrls /\ SentOf(d) # {}

\* C3 as stated: every call with a parseable url whose body is a number or an
\* object other than a Uint8Array (neither a string nor a byte sequence) has
\* returned a promise that is rejected with the unsupported-body error, whose
\* cause is the body.
C3_OtherBodiesReject ==
  \A c \in Calls :
    (/\ calls[c].url \in AbsoluteUrls
     /\ calls[c].options.body.t \in {"number", "object"})
      => /\ calls[c].promise
         /\ calls[c].outcome = "rejected"
         /\ calls[c].error.msg = "Unsupported body type"
         /\ calls[c].error.cause = calls[c].options.body
         /\ SentOf(c) = {}

\* C4: when send_and_read_finish raised, the call is rejected with that very
\* error and no response object was built; a call is never both resolved and
\* rejected: a resolved call holds a response and no error, a rejected one an
\* error and no response.
C4_ClientErrorPropagates ==
  /\ \A i \in Exchanges :
       (sent[i].done /\ sent[i].failed) =>
         /\ calls[sent[i].call].outcome = "rejected"
         /\ calls[sent[i].call].error = sent[i].error
         /\ calls[sent[i].call].views = 0
         /\ calls[sent[i].call].response = NoResponse
  /\ \A c \in Calls :
       /\ calls[c].outcome = "resolved" =>
            calls[c].error = NoError /\ calls[c].response # NoResponse
       /\ calls[c].outcome = "rejected" =>
            calls[c].error # NoError /\ calls[c].response = NoResponse

C4_Witness ==
  \E i \in Exchanges :
    /\ sent[i].done /\ sent[i].failed
    /\ sent[i].error = ClientError(1)
    /\ calls[sent[i].call].error = ClientError(1)

\* C5 as stated: every call has issued exactly one send_and_read_async, never
\* zero and never more than one.
C5_ExactlyOneSendPerCall ==
  \A c \in Calls : Cardinality(SentOf(c)) = 1

\* C5 amended: every call issues at most one send_and_read_async, on the
\* session its function is bound to: exactly one when the url parses and the
\* body is falsy, a string or a Uint8Array, none when the call throws for
\* its url or rejects for its body; with a parseable url and default options
\* the one message has method GET and no body.
C5_OneSendPerAcceptedCall ==
  \A c \in Calls :
    /\ Cardinality(SentOf(c)) <= 1
    /\ Cardinality(SentOf(c)) = 1 <=>
         /\ calls[c].url \in AbsoluteUrls
         /\ \/ ~Truthy(calls[c].options.body)
            \/ IsStringBody(calls[c].options.body)
            \/ IsBytesBody(calls[c].options.body)
    /\ Cardinality(SentOf(c)) = 0 <=> calls[c].outcome = "thrown" \/
         (calls[c].outcome = "rejected" /\ calls[c].completions = 0)
    /\ (calls[c].url \in AbsoluteUrls /\ calls[c].options = DefaultOptions) =>
         \A i \in SentOf(c) :
           /\ sent[i].message.method = sGET
           /\ ~sent[i].message.has_body
           /\ sent[i].message.body = <<>>

C5_Witness ==
  \E c, d \in Calls :
    /\ calls[c].options = DefaultOptions /\ calls[c].url = ValidUrl
    /\ \E i \in SentOf(c) : sent[i].message.method = sGET /\ sent[i].done
    /\ calls[d].outcome \in {"thrown", "rejected"} /\ SentOf(d) = {}

\* C6: with any number of exchanges in flight and completions in any order,
\* a call is settled by the completion of its own exchange only (while its
\* exchange is in flight it stays pending, whatever the others did, and its
\* exchange can complete), and it is settled with the status, headers, body
\* and url of its own exchange, or with its own exchange's error.
C6_CallsSettleIndependently ==
  /\ \A i, j \in Exchanges : sent[i].call = sent[j].call => i = j
  /\ \A i \in Exchanges :
       LET c == sent[i].call IN
         /\ ~sent[i].done =>
              /\ calls[c].outcome = "pending"
              /\ calls[c].completions = 0
              /\ ENABLED (\E result \in ClientResults : Callback(i, result))
         /\ sent[i].done => calls[c].completions = 1
         /\ (sent[i].done /\ ~sent[i].failed) =>
              /\ calls[c].outcome = "resolved"
              /\ calls[c].response.status = sent[i].message.status_code
              /\ calls[c].response.statusText = sent[i].message.reason_phrase
              /\ Len(calls[c].response.headers) = Len(sent[i].message.response_headers)
              /\ \A h \in 1..Len(sent[i].message.response_headers) :
                   calls[c].response.headers[h].value =
                     sent[i].message.response_headers[h].value
              /\ calls[c].response.bodyText = ResponseBody(sent[i].bytes)
              /\ calls[c].response.url = URLHref[calls[c].url]
         /\ (sent[i].done /\ sent[i].failed) =>
              /\ calls[c].outcome = "rejected"
              /\ calls[c].error = sent[i].error

\* Two exchanges in flight together, the later one completed first.
C6_Witness ==
  \E i, j \in Exchanges :
    /\ i < j
    /\ ~sent[i].done /\ calls[sent[i].call].outcome = "pending"
    /\ sent[j].done /\ calls[sent[j].call].outcome = "resolved"
    /\ sent[i].session = sent[j].session

\* C7: makeFetch with an undefined or null session has thrown the
\* session-required error and returned no function; with a session it has
\* returned a function, and every message of every call of that function was
\* handed to that same session.
C7_MakeFetchBindsSession ==
  /\ \A m \in DOMAIN makes :
       /\ makes[m].arg \in {Undefined, Null} =>
            /\ makes[m].thrown
            /\ ~makes[m].returned
            /\ makes[m].error.msg = "Session is required"
       /\ makes[m].arg.t = "Soup.Session" => makes[m].returned /\ ~makes[m].thrown
  /\ \A c \in Calls :
       /\ makes[calls[c].fetcher].returned
       /\ makes[calls[c].fetcher].arg.t = "Soup.Session"
  /\ \A i \in Exchanges : sent[i].session = makes[calls[sent[i].call].fetcher].arg

C7_Witness ==
  /\ \E m \in DOMAIN makes : makes[m].thrown
  /\ \E i, j \in Exchanges :
       /\ i # j
       /\ calls[sent[i].call].fetcher = calls[sent[j].call].fetcher
       /\ sent[i].session = sent[j].session

\* C8 as stated: for every string body (the empty string included) the message
\* carries a body equal to the UTF-8 encoding of the string, tagged
\* text/plain; for every Uint8Array body (an empty one included) it carries
\* the UTF-8 decoding of the bytes, encoded again, tagged text/plain.
C8_BodyTransmitted ==
  \A i \in Exchanges :
    LET b == calls[sent[i].call].options.body IN
      /\ IsStringBody(b) =>
           /\ sent[i].message.has_body
           /\ sent[i].message.body = TextEncoderEncode(b.v)
           /\ sent[i].message.content_type = sTextPlain
      /\ IsBytesBody(b) =>
           /\ sent[i].message.has_body
           /\ sent[i].message.body = TextEncoderEncode(TextDecoderDecode(b.v))
           /\ sent[i].message.content_type = sTextPlain

\* Position of key k among the properties of obj (0 when absent).
PositionOf(obj, k) ==
  IF \E p \in 1..Len(obj) : obj[p][1] = k
    THEN CHOOSE p \in 1..Len(obj) : obj[p][1] = k
    ELSE 0

C10_OkIs2xx ==
  \A i \in Exchanges :
    (sent[i].done /\ ~sent[i].failed) =>
      LET r == calls[sent[i].call].response IN
        /\ calls[sent[i].call].outcome = "resolved"
        /\ r.status = sent[i].message.status_code
        /\ r.status \in StatusCodes
        /\ r.ok <=> r.status \in 200..299
        /\ r.status \in {200, 204, 299} => r.ok
        /\ r.status \in {199, 300, 404} => ~r.ok

C10_Witness ==
  \E c \in Calls :
    /\ calls[c].outcome = "resolved"
    /\ calls[c].response.status = 300
    /\ ~calls[c].response.ok

====
